---- MODULE Spec2Model ----
(***************************************************************************)
(* gh-list-repos: the concurrent fetch / merge / dedup pipeline.           *)
(*                                                                         *)
(* Two builds of main are modelled, selected by `variant`:                 *)
(*   "cache"   src/main.go 16-198: cache reader + seenRepos + cache write, *)
(*             fetching with GetUserRepositories / GetOrgRepositories      *)
(*             (src/internal/github/queries.go 237-327);                   *)
(*   "current" src/unnamed/part_002: --no-archived / --no-fork, streaming  *)
(*             repo.Line() with ProcessUserRepositories /                  *)
(*             ProcessOrgRepositories (queries.go 91-199).                 *)
(*                                                                         *)
(* Spec is a run (or MaxRuns runs in a row) of either of them; LiveSpec is *)
(* one run without a failing query, under fairness.  SeqSpec is the older  *)
(* sequential main (src/main.go 213-273) with the page-size-20 fetchers    *)
(* (queries.go 366-456); FormatSpec applies the formatters Key             *)
(* (src/unnamed/part_000) and Line to one Repository value.                *)
(*                                                                         *)
(* A Go string is a sequence of one-character strings, so that trimming,   *)
(* joining, splitting into lines and padding are computed, not assumed.    *)
(***************************************************************************)
EXTENDS Integers, Sequences, FiniteSets, TLC

(***************************************************************************)
(* Bounds of the model.                                                    *)
(***************************************************************************)
\* most page requests one fetch may issue (the code's loop has no bound)
MaxRequests == 4
\* most runs of the tool in a row
MaxRuns == 2
\* longest repository name handed to the formatter
MaxNameLen == 148
\* most topics of a repository handed to the formatter
MaxTopics == 2
\* most organizations on a command line of the sequential main
MaxOrgs == 2

(***************************************************************************)
(* Program constants.                                                      *)
(***************************************************************************)
pageSize == 100
maxLineWidth == 150

(***************************************************************************)
(* Strings.                                                                *)
(***************************************************************************)
SP == " "
NL == "\n"

\* strings.Repeat(" ", n)
Repeat(c, n) == [i \in 1..n |-> c]

RECURSIVE TrimLeft(_)
TrimLeft(s) ==
    IF s # <<>> /\ Head(s) \in {SP, NL} THEN TrimLeft(Tail(s)) ELSE s

RECURSIVE TrimRight(_)
TrimRight(s) ==
    IF s # <<>> /\ s[Len(s)] \in {SP, NL}
    THEN TrimRight(SubSeq(s, 1, Len(s) - 1))
    ELSE s

\* strings.TrimSpace
TrimSpace(s) == TrimRight(TrimLeft(s))

\* strings.Join(elems, sep)
RECURSIVE Join(_, _)
Join(elems, sep) ==
    IF elems = <<>> THEN <<>>
    ELSE IF Len(elems) = 1 THEN elems[1]
    ELSE elems[1] \o sep \o Join(Tail(elems), sep)

\* bufio.Scanner with the default split function (ScanLines): every
\* newline ends a token; a final unterminated token is returned if non-empty
\* (carriage returns and over-long lines are not among the inputs tried)
RECURSIVE ScanFrom(_, _)
ScanFrom(data, cur) ==
    IF data = <<>> THEN (IF cur = <<>> THEN <<>> ELSE <<cur>>)
    ELSE IF Head(data) = NL THEN <<cur>> \o ScanFrom(Tail(data), <<>>)
    ELSE ScanFrom(Tail(data), Append(cur, Head(data)))

ScanLines(data) == ScanFrom(data, <<>>)

\* the elements of a sequence
Range(s) == {s[i] : i \in DOMAIN s}

\* byte order of the characters used (only the relative order matters)
Ascii ==
    << "\n", " ", ",", "/", "[", "]",
       "a", "b", "c", "d", "e", "f", "g", "h", "i", "j", "k", "l", "m",
       "n", "o", "p", "q", "r", "s", "t", "u", "v", "w", "x", "y", "z", "|" >>

Code(c) == CHOOSE i \in DOMAIN Ascii : Ascii[i] = c

\* Go's s < t on strings: bytewise lexicographic
RECURSIVE StrLess(_, _)
StrLess(s, t) ==
    IF t = <<>> THEN FALSE
    ELSE IF s = <<>> THEN TRUE
    ELSE IF Head(s) = Head(t) THEN StrLess(Tail(s), Tail(t))
    ELSE Code(Head(s)) < Code(Head(t))

RECURSIVE InsertSorted(_, _)
InsertSorted(x, sorted) ==
    IF sorted = <<>> THEN <<x>>
    ELSE IF StrLess(x, Head(sorted)) THEN <<x>> \o sorted
    ELSE <<Head(sorted)>> \o InsertSorted(x, Tail(sorted))

\* sort.Strings left out: the slice as it came
Unsorted(ss) == ss

\* sort.Strings
RECURSIVE SortStrings(_)
SortStrings(ss) ==
    IF ss = <<>> THEN <<>> ELSE InsertSorted(Head(ss), SortStrings(Tail(ss)))

(***************************************************************************)
(* utils.AlignStrings and Repository.Line                                  *)
(***************************************************************************)
\* AlignStrings that only concatenates
AlignStringsNoPadding(s1, s2, maxWidth) == s1 \o s2

AlignStrings(s1, s2, maxWidth) ==
    LET totalLen == Len(s1) + Len(s2) IN
    IF totalLen > maxWidth
    THEN s1 \o s2
    ELSE s1 \o Repeat(SP, maxWidth - totalLen) \o s2

StrArchived == <<"a", "r", "c", "h", "i", "v", "e", "d">>
StrFork == <<"f", "o", "r", "k">>

\* a Repository value as the GraphQL response decodes it
Repository(name, fork, archived, topics) ==
    [NameWithOwner |-> name, IsFork |-> fork, IsArchived |-> archived,
     RepositoryTopics |-> topics]

Line(r) ==
    LET left == r.NameWithOwner
        right0 == IF r.IsArchived THEN <<StrArchived>> ELSE <<>>
        right1 == IF r.IsFork THEN Append(right0, StrFork) ELSE right0
        right == IF Len(r.RepositoryTopics) > 0
                 THEN Append(right1,
                        <<"[">> \o Join(SortStrings(r.RepositoryTopics), <<",">>)
                               \o <<"]">>)
                 ELSE right1
    IN  IF Len(right) = 0
        THEN left
        ELSE AlignStrings(left, Join(right, <<" ", "|", " ">>), maxLineWidth)

\* the annotation list of Key with every annotation tied to showTopics
KeyRightTied(r, showTopics) ==
    LET right0 == IF r.IsArchived THEN <<StrArchived>> ELSE <<>>
        right1 == IF r.IsFork THEN Append(right0, StrFork) ELSE right0
    IN  IF ~showTopics THEN <<>>
        ELSE IF Len(r.RepositoryTopics) > 0
        THEN Append(right1,
               <<"[">> \o Join(SortStrings(r.RepositoryTopics), <<",">>)
                      \o <<"]">>)
        ELSE right1

\* Repository.Key: the slice `right` it builds
KeyRight(r, showTopics) ==
    LET right0 == IF r.IsArchived THEN <<StrArchived>> ELSE <<>>
        right1 == IF r.IsFork THEN Append(right0, StrFork) ELSE right0
    IN  IF showTopics /\ Len(r.RepositoryTopics) > 0
        THEN Append(right1,
               <<"[">> \o Join(SortStrings(r.RepositoryTopics), <<",">>)
                      \o <<"]">>)
        ELSE right1

\* Repository.Key(showTopics)
Key(r, showTopics) ==
    LET left == r.NameWithOwner
        right == KeyRight(r, showTopics)
    IN  IF Len(right) = 0
        THEN left
        ELSE AlignStrings(left, Join(right, <<" ", "|", " ">>), maxLineWidth)

(***************************************************************************)
(* The upstream query collaborator.  An owner's repositories are served    *)
(* as a fixed sequence of pages; page i carries endCursor i and            *)
(* hasNextPage = (i < number of pages).  A request with a nil cursor gets  *)
(* page 1, a request with cursor c gets page c + 1.  The isArchived and    *)
(* isFork arguments, when not nil, select the nodes served.                *)
(***************************************************************************)
NameA == <<"a">>
NameB == <<"b">>
NameC == <<"c">>
NameD == <<"d">>

RepoA == Repository(NameA, FALSE, FALSE, <<>>)
RepoB == Repository(NameB, FALSE, FALSE, <<>>)
RepoC == Repository(NameC, FALSE, TRUE, <<>>)
RepoD == Repository(NameD, TRUE, FALSE, << <<"z">>, <<"a">> >>)

\* owner login -> pages
Upstream ==
    [ u  |-> << <<RepoA, RepoC>>, <<RepoB>> >>,
      o1 |-> << <<RepoB, RepoD>> >>,
      o2 |-> << <<RepoD>>, <<>>, <<RepoA>> >>,
      e  |-> << <<>> >> ]

Nil == <<>>
Ptr(v) == <<v>>

Matches(r, variables) ==
    /\ variables.isArchived # Nil => r.IsArchived = variables.isArchived[1]
    /\ variables.isFork # Nil => r.IsFork = variables.isFork[1]

RECURSIVE SelectNodes(_, _)
SelectNodes(nodes, variables) ==
    IF nodes = <<>> THEN <<>>
    ELSE (IF Matches(Head(nodes), variables) THEN <<Head(nodes)>> ELSE <<>>)
         \o SelectNodes(Tail(nodes), variables)

\* the response to one page request
Serve(variables) ==
    LET pages == Upstream[variables.owner]
        i == IF variables.cursor = Nil THEN 1 ELSE variables.cursor[1] + 1
    IN  IF i <= Len(pages)
        THEN [Nodes |-> SelectNodes(pages[i], variables),
              EndCursor |-> i, HasNextPage |-> i < Len(pages)]
        ELSE [Nodes |-> <<>>, EndCursor |-> i - 1, HasNextPage |-> FALSE]

\* every node the upstream holds for a request's owner and predicates
RECURSIVE Flatten(_)
Flatten(pages) ==
    IF pages = <<>> THEN <<>> ELSE Head(pages) \o Flatten(Tail(pages))

AllNodes(variables) == SelectNodes(Flatten(Upstream[variables.owner]), variables)

(***************************************************************************)
(* The paginated fetchers.  A fetch is a record:                           *)
(*   variables  the request variables map                                  *)
(*   page       the page counter                                           *)
(*   query      the last response decoded                                  *)
(*   repos      the records aggregated so far (Get*Repositories)           *)
(*   ret        the slice Get*Repositories returned                        *)
(*   i          index of the node / record being handed to the channel     *)
(***************************************************************************)
EmptyQuery == [Nodes |-> <<>>, EndCursor |-> 0, HasNextPage |-> FALSE]

NoVariables ==
    [owner |-> "", first |-> 0, cursor |-> Nil, isArchived |-> Nil, isFork |-> Nil]

NoFetch ==
    [variables |-> NoVariables, page |-> 0, query |-> EmptyQuery,
     repos |-> <<>>, ret |-> <<>>, i |-> 0]

\* ProcessUserRepositories / ProcessOrgRepositories: the variables map
ProcessVariables(owner, noArch, noFrk) ==
    [owner |-> owner, first |-> pageSize, cursor |-> Nil,
     isArchived |-> IF noArch THEN Ptr(FALSE) ELSE Nil,
     isFork |-> IF noFrk THEN Ptr(FALSE) ELSE Nil]

\* GetUserRepositories: the query takes no isArchived / isFork argument
GetUserVariables(owner) ==
    [owner |-> owner, first |-> 100, cursor |-> Nil,
     isArchived |-> Nil, isFork |-> Nil]

\* GetOrgRepositories: isArchived is always false
GetOrgVariables(owner) ==
    [owner |-> owner, first |-> 100, cursor |-> Nil,
     isArchived |-> Ptr(FALSE), isFork |-> Nil]

NewFetch(variables) ==
    [variables |-> variables, page |-> 1, query |-> EmptyQuery,
     repos |-> <<>>, ret |-> <<>>, i |-> 0]

\* Advance with the cursor left as it was
AdvanceStale(f) == [f EXCEPT !.page = f.page + 1]

\* Advance with the variables map rebuilt from the owner and cursor alone
AdvanceDropsFilter(f) ==
    [f EXCEPT !.variables.cursor = Ptr(f.query.EndCursor),
              !.variables.isArchived = Nil, !.variables.isFork = Nil,
              !.page = f.page + 1]

\* the end of one loop iteration when the response has a next page
Advance(f) ==
    [f EXCEPT !.variables.cursor = Ptr(f.query.EndCursor), !.page = f.page + 1]

\* Aggregate with the break taken before the append
AggregateBeforeBreak(f, q) ==
    IF q.HasNextPage
    THEN [f EXCEPT !.query = q, !.repos = f.repos \o q.Nodes]
    ELSE [f EXCEPT !.query = q]

\* Get*Repositories: one loop iteration on response q
Aggregate(f, q) ==
    [f EXCEPT !.query = q, !.repos = f.repos \o q.Nodes]

\* GetUserRepositories: the client-side filter applied after the loop
RECURSIVE FilterRepos(_)
FilterRepos(repos) ==
    IF repos = <<>> THEN <<>>
    ELSE (IF ~Head(repos).IsArchived /\ ~Head(repos).IsFork
          THEN <<Head(repos)>> ELSE <<>>) \o FilterRepos(Tail(repos))

\* the NameWithOwner of each record
RECURSIVE MapName(_)
MapName(nodes) ==
    IF nodes = <<>> THEN <<>>
    ELSE <<Head(nodes).NameWithOwner>> \o MapName(Tail(nodes))

\* SendUnique with Load in place of LoadOrStore: the key is looked up but
\* not stored
SendUniqueLoadOnly(name, seen) ==
    [send |-> name # <<>> /\ name \notin seen, seen |-> seen]

\* SendUnique that sends whether or not the key was already stored
SendAlways(name, seen) ==
    [send |-> name # <<>>,
     seen |-> IF name # <<>> THEN seen \cup {name} ELSE seen]

\* sendUniqueRepoName up to the channel send: LoadOrStore on seenRepos
SendUnique(name, seen) ==
    [send |-> name # <<>> /\ name \notin seen,
     seen |-> IF name # <<>> THEN seen \cup {name} ELSE seen]

(***************************************************************************)
(* State.                                                                  *)
(***************************************************************************)
VARIABLES
    variant,            \* which main is built: "cache" or "current"
    username,           \* --username ("" when not given)
    orgs,               \* --orgs, split on ","
    noArchived,         \* --no-archived
    noFork,             \* --no-fork
    cacheFileFlagValue, \* --cache-file ("" when not given)
    disk,               \* the cache file: [exists, data]
    run,                \* number of the current run of the tool
    startCache,         \* the cache file as it was when this run started
    prevWrote,          \* the run before this one reached the cache write
    pc,                 \* position of main, cache reader, API goroutine, closer
    fpc,                \* position of each fetch: 0 the user's, j the j-th org's
    fst,                \* each fetch's local state
    next,               \* the API goroutine's index into orgs
    wg,                 \* main wait group
    fetchWG,            \* orgWG (main.go) / fetchWG (part_002)
    closes,             \* number of close(channel) calls made
    seenRepos,          \* keys stored in the sync.Map
    lines,              \* lines the cache reader's scanner has not returned yet
    cacheOut,           \* the line the cache reader is sending
    printed,            \* standard output, one element per line
    origin,             \* for each printed line, who sent it
    collectedRepos,     \* collectedRepos (main.go) / repos (part_002)
    reqlog,             \* per fetch: the requests issued and their responses
    fatal,              \* log.Fatal was called: the process has exited
    fmtRepo,            \* the Repository value handed to the formatter
    fmtShowTopics,      \* the showTopics argument handed to Key
    fmtKey,             \* what Key returned (Nil until it is called)
    fmtLine             \* what Line returned (Nil until it is called)

flags == <<variant, username, orgs, noArchived, noFork, cacheFileFlagValue>>
fmt == <<fmtRepo, fmtShowTopics, fmtKey, fmtLine>>
pipeline == <<disk, run, startCache, prevWrote,
              pc, fpc, fst, next, wg, fetchWG, closes,
              seenRepos, lines, cacheOut, printed, origin, collectedRepos,
              reqlog, fatal>>
vars == <<flags, fmt, pipeline>>

Fetchers == 0 .. Len(orgs)
Owner(f) == IF f = 0 THEN username ELSE orgs[f]

\* the command lines tried: <<username, orgs>>
Sources ==
    { <<"", <<>>>>, <<"u", <<>>>>, <<"e", <<>>>>,
      <<"u", <<"o1", "o2">>>>, <<"", <<"o2", "o2">>>>, <<"e", <<"e", "o1">>>> }

\* the cache files tried: absent, empty, and a few contents
Absent == [exists |-> FALSE, data |-> <<>>]
File(data) == [exists |-> TRUE, data |-> data]
Disks ==
    { Absent, File(<<>>), File(<<"a", NL>>),
      File(<<SP, "a", SP, NL, NL, "b">>),
      File(<<"b", NL, "a", NL, "b", NL>>) }

\* the state of a run that has not started, over a given cache file
Fresh ==
    /\ pc = [main |-> "start", cache |-> "idle", api |-> "idle", closer |-> "idle"]
    /\ fpc = [f \in Fetchers |-> "idle"]
    /\ fst = [f \in Fetchers |-> NoFetch]
    /\ next = 1
    /\ wg = 0
    /\ fetchWG = 0
    /\ closes = 0
    /\ seenRepos = {}
    /\ lines = <<>>
    /\ cacheOut = <<>>
    /\ printed = <<>>
    /\ origin = <<>>
    /\ collectedRepos = <<>>
    /\ reqlog = [f \in Fetchers |-> <<>>]
    /\ fatal = FALSE

\* the formatter has not been called
Unformatted ==
    /\ fmtRepo = RepoA
    /\ fmtShowTopics = FALSE
    /\ fmtKey = Nil
    /\ fmtLine = Nil

\* --cache-file only decides the validation and the path; it is varied
\* where the validation reads it, with no other source given
Init ==
    /\ variant \in {"cache", "current"}
    /\ \E src \in Sources : username = src[1] /\ orgs = src[2]
    /\ noArchived \in (IF variant = "current" THEN BOOLEAN ELSE {FALSE})
    /\ noFork \in (IF variant = "current" THEN BOOLEAN ELSE {FALSE})
    /\ cacheFileFlagValue \in
         (IF variant = "cache" /\ username = "" /\ orgs = <<>>
          THEN {"", "f"} ELSE {""})
    /\ disk \in (IF variant = "cache" THEN Disks ELSE {Absent})
    /\ run = 1
    /\ startCache = disk
    /\ prevWrote = FALSE
    /\ Fresh
    /\ Unformatted

closed == closes > 0
Running == ~fatal /\ pc.main \notin {"usage", "done"}

(***************************************************************************)
(* main                                                                    *)
(***************************************************************************)
\* MainStart with the validation left out
MainStartNoValidation ==
    /\ Running /\ pc.main = "start"
    /\ pc' = [pc EXCEPT !.main =
                  IF variant = "cache" THEN "spawnCache" ELSE "spawnApi"]
    /\ UNCHANGED <<flags, fmt, disk, run, startCache, prevWrote, fpc, fst, next,
                   wg, fetchWG,
                   closes, seenRepos, lines, cacheOut, printed, origin,
                   collectedRepos, reqlog, fatal>>

\* flag validation: print usage and exit 1 when no source is given
MainStart ==
    /\ Running /\ pc.main = "start"
    /\ IF /\ username = "" /\ Len(orgs) = 0
          /\ (variant = "cache" => cacheFileFlagValue = "")
       THEN pc' = [pc EXCEPT !.main = "usage"]
       ELSE pc' = [pc EXCEPT !.main =
                      IF variant = "cache" THEN "spawnCache" ELSE "spawnApi"]
    /\ UNCHANGED <<flags, fmt, disk, run, startCache, prevWrote, fpc, fst, next,
                   wg, fetchWG,
                   closes, seenRepos, lines, cacheOut, printed, origin,
                   collectedRepos, reqlog, fatal>>

\* MainSpawnCache with the cache file created (emptied) for writing first
MainSpawnCacheCreates ==
    /\ Running /\ pc.main = "spawnCache"
    /\ wg' = wg + 1
    /\ disk' = File(<<>>)
    /\ pc' = [pc EXCEPT !.main = "spawnApi", !.cache = "open"]
    /\ UNCHANGED <<flags, fmt, run, startCache, prevWrote, fpc, fst, next,
                   fetchWG,
                   closes, seenRepos, lines, cacheOut, printed, origin,
                   collectedRepos, reqlog, fatal>>

\* wg.Add(1); go <cache reader>
MainSpawnCache ==
    /\ Running /\ pc.main = "spawnCache"
    /\ wg' = wg + 1
    /\ pc' = [pc EXCEPT !.main = "spawnApi", !.cache = "open"]
    /\ UNCHANGED <<flags, fmt, disk, run, startCache, prevWrote, fpc, fst, next,
                   fetchWG,
                   closes, seenRepos, lines, cacheOut, printed, origin,
                   collectedRepos, reqlog, fatal>>

\* if username != "" || len(orgs) > 0 { wg.Add(1); go <API goroutine> }
MainSpawnApi ==
    /\ Running /\ pc.main = "spawnApi"
    /\ IF username # "" \/ Len(orgs) > 0
       THEN /\ wg' = wg + 1
            /\ pc' = [pc EXCEPT !.main = "spawnCloser", !.api = "begin"]
       ELSE /\ wg' = wg
            /\ pc' = [pc EXCEPT !.main = "spawnCloser"]
    /\ UNCHANGED <<flags, fmt, disk, run, startCache, prevWrote, fpc, fst, next,
                   fetchWG,
                   closes, seenRepos, lines, cacheOut, printed, origin,
                   collectedRepos, reqlog, fatal>>

\* go <closer>
MainSpawnCloser ==
    /\ Running /\ pc.main = "spawnCloser"
    /\ pc' = [pc EXCEPT !.main = "range", !.closer = "wait"]
    /\ UNCHANGED <<flags, fmt, disk, run, startCache, prevWrote, fpc, fst, next,
                   wg, fetchWG,
                   closes, seenRepos, lines, cacheOut, printed, origin,
                   collectedRepos, reqlog, fatal>>

\* SendValue that walks the page (the returned slice) from its end
SendValueReversed(f) ==
    IF variant = "cache"
    THEN fst[f].ret[Len(fst[f].ret) - fst[f].i + 1].NameWithOwner
    ELSE Line(fst[f].query.Nodes[Len(fst[f].query.Nodes) - fst[f].i + 1])

\* the value fetch f hands to the channel
SendValue(f) ==
    IF variant = "cache"
    THEN fst[f].ret[fst[f].i].NameWithOwner
    ELSE Line(fst[f].query.Nodes[fst[f].i])

\* the cache reader's mark in origin (a fetch's mark is its number)
CacheReader == -1

\* for line := range channel { fmt.Println(line); append } : one receive
Consume(line, who) ==
    /\ printed' = Append(printed, line)
    /\ origin' = Append(origin, who)
    /\ collectedRepos' = Append(collectedRepos, line)

\* the range loop ends on the closed channel
MainRangeEnd ==
    /\ Running /\ pc.main = "range" /\ closed
    /\ pc' = [pc EXCEPT !.main = IF variant = "cache" THEN "write" ELSE "done"]
    /\ UNCHANGED <<flags, fmt, disk, run, startCache, prevWrote, fpc, fst, next,
                   wg, fetchWG,
                   closes, seenRepos, lines, cacheOut, printed, origin,
                   collectedRepos, reqlog, fatal>>

\* CacheContent with the keys joined by spaces
CacheContentSpaces(collected) == Join(collected, <<SP>>) \o <<NL>>

\* the content os.WriteFile is given
CacheContent(collected) == Join(collected, <<NL>>) \o <<NL>>

\* os.WriteFile(cacheFile, strings.Join(collectedRepos, "\n")+"\n");
\* the write is taken to succeed (a failure is only logged)
MainWrite ==
    /\ Running /\ pc.main = "write"
    /\ disk' = File(CacheContent(collectedRepos))
    /\ pc' = [pc EXCEPT !.main = "done"]
    /\ UNCHANGED <<flags, fmt, run, startCache, prevWrote, fpc, fst, next, wg, fetchWG,
                   closes, seenRepos, lines, cacheOut, printed, origin,
                   collectedRepos, reqlog, fatal>>

(***************************************************************************)
(* the closer goroutine                                                    *)
(***************************************************************************)
\* a Wait that does not wait
WaitSkipped(counter) == TRUE

\* a Wait that returns with one goroutine still registered
WaitReturnsEarly(counter) == counter <= 1

\* sync.WaitGroup.Wait returns when the counter is zero
WaitReturns(counter) == counter = 0

CloserWait ==
    /\ Running /\ pc.closer = "wait" /\ WaitReturns(wg)
    /\ pc' = [pc EXCEPT !.closer = "close"]
    /\ UNCHANGED <<flags, fmt, disk, run, startCache, prevWrote, fpc, fst, next,
                   wg, fetchWG,
                   closes, seenRepos, lines, cacheOut, printed, origin,
                   collectedRepos, reqlog, fatal>>

CloserClose ==
    /\ Running /\ pc.closer = "close"
    /\ closes' = closes + 1
    /\ pc' = [pc EXCEPT !.closer = "done"]
    /\ UNCHANGED <<flags, fmt, disk, run, startCache, prevWrote, fpc, fst, next,
                   wg, fetchWG,
                   seenRepos, lines, cacheOut, printed, origin,
                   collectedRepos, reqlog, fatal>>

(***************************************************************************)
(* the cache reader goroutine (main.go only)                               *)
(***************************************************************************)
\* CacheOpen that returns without reading the file it opened
CacheOpenIgnoresFile ==
    /\ Running /\ pc.cache = "open"
    /\ lines' = lines
    /\ pc' = [pc EXCEPT !.cache = "done"]
    /\ wg' = wg - 1
    /\ UNCHANGED <<flags, fmt, disk, run, startCache, prevWrote, fpc, fst, next,
                   fetchWG,
                   closes, seenRepos, cacheOut, printed, origin,
                   collectedRepos, reqlog, fatal>>

\* CacheOpen with the open error handed to log.Fatal
CacheOpenFatal ==
    /\ Running /\ pc.cache = "open"
    /\ IF disk.exists
       THEN /\ lines' = ScanLines(disk.data)
            /\ pc' = [pc EXCEPT !.cache = "scan"]
            /\ fatal' = fatal
       ELSE /\ lines' = lines
            /\ pc' = pc
            /\ fatal' = TRUE
    /\ UNCHANGED <<flags, fmt, disk, run, startCache, prevWrote, fpc, fst, next,
                   wg, fetchWG,
                   closes, seenRepos, cacheOut, printed, origin,
                   collectedRepos, reqlog>>

\* os.Open: on error log a warning and return (defer wg.Done)
CacheOpen ==
    /\ Running /\ pc.cache = "open"
    /\ IF disk.exists
       THEN /\ lines' = ScanLines(disk.data)
            /\ pc' = [pc EXCEPT !.cache = "scan"]
            /\ wg' = wg
       ELSE /\ lines' = lines
            /\ pc' = [pc EXCEPT !.cache = "done"]
            /\ wg' = wg - 1
    /\ UNCHANGED <<flags, fmt, disk, run, startCache, prevWrote, fpc, fst, next,
                   fetchWG,
                   closes, seenRepos, cacheOut, printed, origin,
                   collectedRepos, reqlog, fatal>>

\* one turn of `for scanner.Scan()` up to the channel send, or the return
CacheScan ==
    /\ Running /\ pc.cache = "scan"
    /\ IF lines = <<>>
       THEN /\ pc' = [pc EXCEPT !.cache = "done"]
            /\ wg' = wg - 1
            /\ UNCHANGED <<lines, seenRepos, cacheOut>>
       ELSE LET repoName == TrimSpace(Head(lines))
                r == SendUnique(repoName, seenRepos)
            IN  /\ lines' = Tail(lines)
                /\ seenRepos' = r.seen
                /\ cacheOut' = IF r.send THEN repoName ELSE cacheOut
                /\ pc' = [pc EXCEPT !.cache = IF r.send THEN "send" ELSE "scan"]
                /\ wg' = wg
    /\ UNCHANGED <<flags, fmt, disk, run, startCache, prevWrote, fpc, fst, next,
                   fetchWG,
                   closes, printed, origin, collectedRepos, reqlog, fatal>>

\* repoNameChannel <- name meets the receive of main's range loop
ReceiveFromCache ==
    /\ Running /\ pc.main = "range" /\ pc.cache = "send"
    /\ Consume(cacheOut, CacheReader)
    /\ pc' = [pc EXCEPT !.cache = "scan"]
    /\ UNCHANGED <<flags, fmt, disk, run, startCache, prevWrote, fpc, fst, next,
                   wg, fetchWG,
                   closes, seenRepos, lines, cacheOut, reqlog, fatal>>

(***************************************************************************)
(* the API goroutine                                                       *)
(***************************************************************************)
\* the user's fetch: called inline (main.go), or in a goroutine of its own
\* registered in fetchWG (part_002)
ApiUser ==
    /\ Running /\ pc.api = "begin"
    /\ IF username = ""
       THEN /\ pc' = [pc EXCEPT !.api = "spawn"]
            /\ UNCHANGED <<fpc, fst, fetchWG>>
       ELSE IF variant = "cache"
       THEN /\ pc' = [pc EXCEPT !.api = "user"]
            /\ fpc' = [fpc EXCEPT ![0] = "query"]
            /\ fst' = [fst EXCEPT ![0] = NewFetch(GetUserVariables(username))]
            /\ fetchWG' = fetchWG
       ELSE /\ pc' = [pc EXCEPT !.api = "spawn"]
            /\ fpc' = [fpc EXCEPT ![0] = "query"]
            /\ fst' = [fst EXCEPT ![0] =
                          NewFetch(ProcessVariables(username, noArchived, noFork))]
            /\ fetchWG' = fetchWG + 1
    /\ UNCHANGED <<flags, fmt, disk, run, startCache, prevWrote, next, wg, closes, seenRepos,
                   lines, cacheOut, printed, origin, collectedRepos, reqlog,
                   fatal>>

\* for _, org := range orgs { fetchWG.Add(1); go func(currentOrg) {...}(org) }
ApiSpawnOrg ==
    /\ Running /\ pc.api = "spawn" /\ next <= Len(orgs)
    /\ fetchWG' = fetchWG + 1
    /\ fpc' = [fpc EXCEPT ![next] = "query"]
    /\ fst' = [fst EXCEPT ![next] =
                  NewFetch(IF variant = "cache"
                           THEN GetOrgVariables(orgs[next])
                           ELSE ProcessVariables(orgs[next], noArchived, noFork))]
    /\ next' = next + 1
    /\ UNCHANGED <<flags, fmt, disk, run, startCache, prevWrote, pc, wg, closes, seenRepos,
                   lines, cacheOut, printed, origin, collectedRepos, reqlog,
                   fatal>>

\* fetchWG.Wait() returns, the goroutine ends (defer wg.Done)
ApiWait ==
    /\ Running /\ pc.api = "spawn" /\ next > Len(orgs)
    /\ WaitReturns(fetchWG)
    /\ wg' = wg - 1
    /\ pc' = [pc EXCEPT !.api = "done"]
    /\ UNCHANGED <<flags, fmt, disk, run, startCache, prevWrote, fpc, fst, next,
                   fetchWG,
                   closes, seenRepos, lines, cacheOut, printed, origin,
                   collectedRepos, reqlog, fatal>>

(***************************************************************************)
(* the fetches                                                             *)
(***************************************************************************)
LogEntry(variables, ok, q) ==
    [variables |-> variables, ok |-> ok,
     EndCursor |-> q.EndCursor, HasNextPage |-> q.HasNextPage]

\* client.Query returns an error: log.Fatal ends the process
QueryFails(f) ==
    /\ Running /\ fpc[f] = "query" /\ Len(reqlog[f]) < MaxRequests
    /\ reqlog' = [reqlog EXCEPT ![f] =
                     Append(@, LogEntry(fst[f].variables, FALSE, EmptyQuery))]
    /\ fatal' = TRUE
    /\ UNCHANGED <<flags, fmt, disk, run, startCache, prevWrote,
          pc, fpc, fst, next, wg,
                   fetchWG, closes, seenRepos, lines, cacheOut, printed,
                   origin, collectedRepos>>

\* what the caller of GetUserRepositories / GetOrgRepositories is handed
Returned(f, repos) == IF f = 0 THEN FilterRepos(repos) ELSE repos

\* Get*Repositories: one page request and the rest of the loop iteration
GetQuery(f) ==
    /\ Running /\ variant = "cache"
    /\ fpc[f] = "query" /\ Len(reqlog[f]) < MaxRequests
    /\ LET q == Serve(fst[f].variables)
           g == Aggregate(fst[f], q)
       IN  /\ reqlog' = [reqlog EXCEPT ![f] =
                            Append(@, LogEntry(fst[f].variables, TRUE, q))]
           /\ IF q.HasNextPage
              THEN /\ fst' = [fst EXCEPT ![f] = Advance(g)]
                   /\ fpc' = fpc
              ELSE /\ fst' = [fst EXCEPT ![f] =
                                 [g EXCEPT !.ret = Returned(f, g.repos), !.i = 1]]
                   /\ fpc' = [fpc EXCEPT ![f] = "offer"]
    /\ UNCHANGED <<flags, fmt, disk, run, startCache, prevWrote, pc, next, wg, fetchWG, closes,
                   seenRepos, lines, cacheOut, printed, origin,
                   collectedRepos, fatal>>

\* for _, repo := range repos { sendUniqueRepoName(repo.NameWithOwner) }:
\* one turn up to the channel send, or the end of the loop
Offer(f) ==
    /\ Running /\ variant = "cache" /\ fpc[f] = "offer"
    /\ IF fst[f].i > Len(fst[f].ret)
       THEN /\ fpc' = [fpc EXCEPT ![f] = "done"]
            /\ pc' = IF f = 0 THEN [pc EXCEPT !.api = "spawn"] ELSE pc
            /\ fetchWG' = IF f = 0 THEN fetchWG ELSE fetchWG - 1
            /\ UNCHANGED <<fst, seenRepos>>
       ELSE LET r == SendUnique(fst[f].ret[fst[f].i].NameWithOwner, seenRepos)
            IN  /\ seenRepos' = r.seen
                /\ IF r.send
                   THEN /\ fpc' = [fpc EXCEPT ![f] = "send"]
                        /\ fst' = fst
                   ELSE /\ fpc' = fpc
                        /\ fst' = [fst EXCEPT ![f].i = @ + 1]
                /\ UNCHANGED <<pc, fetchWG>>
    /\ UNCHANGED <<flags, fmt, disk, run, startCache, prevWrote, next, wg, closes, lines,
                   cacheOut, printed, origin, collectedRepos, reqlog, fatal>>

\* AfterPage with the fetchWG.Done of the returning goroutine left out
AfterPageNoDone(f, g) ==
    IF g.query.HasNextPage
    THEN /\ fst' = [fst EXCEPT ![f] = Advance(g)]
         /\ fpc' = [fpc EXCEPT ![f] = "query"]
         /\ fetchWG' = fetchWG
    ELSE /\ fst' = [fst EXCEPT ![f] = g]
         /\ fpc' = [fpc EXCEPT ![f] = "done"]
         /\ fetchWG' = fetchWG

\* Process*Repositories after the last node of a page was sent:
\* break and return (defer fetchWG.Done), or move the cursor
AfterPage(f, g) ==
    IF g.query.HasNextPage
    THEN /\ fst' = [fst EXCEPT ![f] = Advance(g)]
         /\ fpc' = [fpc EXCEPT ![f] = "query"]
         /\ fetchWG' = fetchWG
    ELSE /\ fst' = [fst EXCEPT ![f] = g]
         /\ fpc' = [fpc EXCEPT ![f] = "done"]
         /\ fetchWG' = fetchWG - 1

\* Process*Repositories: one page request, up to the first channel send
ProcessQuery(f) ==
    /\ Running /\ variant = "current"
    /\ fpc[f] = "query" /\ Len(reqlog[f]) < MaxRequests
    /\ LET q == Serve(fst[f].variables)
           g == [fst[f] EXCEPT !.query = q, !.i = 1]
       IN  /\ reqlog' = [reqlog EXCEPT ![f] =
                            Append(@, LogEntry(fst[f].variables, TRUE, q))]
           /\ IF Len(q.Nodes) > 0
              THEN /\ fst' = [fst EXCEPT ![f] = g]
                   /\ fpc' = [fpc EXCEPT ![f] = "send"]
                   /\ fetchWG' = fetchWG
              ELSE AfterPage(f, g)
    /\ UNCHANGED <<flags, fmt, disk, run, startCache, prevWrote, pc, next, wg, closes,
                   seenRepos, lines, cacheOut, printed, origin,
                   collectedRepos, fatal>>

\* ReceiveFromFetch on a channel with room: the send returns with no
\* receiver, main prints nothing
SendWithoutReceive(f) ==
    /\ Running /\ fpc[f] = "send"
    /\ IF variant = "cache"
       THEN /\ fst' = [fst EXCEPT ![f].i = @ + 1]
            /\ fpc' = [fpc EXCEPT ![f] = "offer"]
            /\ fetchWG' = fetchWG
       ELSE IF fst[f].i < Len(fst[f].query.Nodes)
       THEN /\ fst' = [fst EXCEPT ![f].i = @ + 1]
            /\ fpc' = fpc
            /\ fetchWG' = fetchWG
       ELSE AfterPage(f, fst[f])
    /\ UNCHANGED <<flags, fmt, disk, run, startCache, prevWrote, pc, next, wg, closes,
                   seenRepos, lines, cacheOut, printed, origin, collectedRepos,
                   reqlog, fatal>>

\* a fetch's channel send meets the receive of main's range loop
ReceiveFromFetch(f) ==
    /\ Running /\ pc.main = "range" /\ fpc[f] = "send"
    /\ Consume(SendValue(f), f)
    /\ IF variant = "cache"
       THEN /\ fst' = [fst EXCEPT ![f].i = @ + 1]
            /\ fpc' = [fpc EXCEPT ![f] = "offer"]
            /\ fetchWG' = fetchWG
       ELSE IF fst[f].i < Len(fst[f].query.Nodes)
       THEN /\ fst' = [fst EXCEPT ![f].i = @ + 1]
            /\ fpc' = fpc
            /\ fetchWG' = fetchWG
       ELSE AfterPage(f, fst[f])
    /\ UNCHANGED <<flags, fmt, disk, run, startCache, prevWrote, pc, next, wg, closes,
                   seenRepos, lines, cacheOut, reqlog, fatal>>

(***************************************************************************)
(* the tool is run again over the cache file the last run left             *)
(***************************************************************************)
Rerun ==
    /\ variant = "cache" /\ ~Running /\ run < MaxRuns
    /\ run' = run + 1
    /\ startCache' = disk
    /\ prevWrote' = (pc.main = "done")
    /\ pc' = [main |-> "start", cache |-> "idle", api |-> "idle", closer |-> "idle"]
    /\ fpc' = [f \in Fetchers |-> "idle"]
    /\ fst' = [f \in Fetchers |-> NoFetch]
    /\ next' = 1
    /\ wg' = 0
    /\ fetchWG' = 0
    /\ closes' = 0
    /\ seenRepos' = {}
    /\ lines' = <<>>
    /\ cacheOut' = <<>>
    /\ printed' = <<>>
    /\ origin' = <<>>
    /\ collectedRepos' = <<>>
    /\ reqlog' = [f \in Fetchers |-> <<>>]
    /\ fatal' = FALSE
    /\ UNCHANGED <<flags, fmt, disk>>

Next ==
    \/ MainStart
    \/ MainSpawnCache
    \/ MainSpawnApi
    \/ MainSpawnCloser
    \/ MainRangeEnd
    \/ MainWrite
    \/ CloserWait
    \/ CloserClose
    \/ CacheOpen
    \/ CacheScan
    \/ ReceiveFromCache
    \/ ApiUser
    \/ ApiSpawnOrg
    \/ ApiWait
    \/ \E f \in Fetchers : QueryFails(f)
    \/ \E f \in Fetchers : GetQuery(f)
    \/ \E f \in Fetchers : Offer(f)
    \/ \E f \in Fetchers : ProcessQuery(f)
    \/ \E f \in Fetchers : ReceiveFromFetch(f)
    \/ Rerun

Spec == Init /\ [][Next]_vars

(***************************************************************************)
(* One run in which no query returns an error, under a scheduler that      *)
(* keeps running some goroutine that can take a step (the Go scheduler     *)
(* runs every runnable goroutine, which is more than this asks).           *)
(***************************************************************************)
NextNoFailure ==
    \/ MainStart
    \/ MainSpawnCache
    \/ MainSpawnApi
    \/ MainSpawnCloser
    \/ MainRangeEnd
    \/ MainWrite
    \/ CloserWait
    \/ CloserClose
    \/ CacheOpen
    \/ CacheScan
    \/ ReceiveFromCache
    \/ ApiUser
    \/ ApiSpawnOrg
    \/ ApiWait
    \/ \E f \in Fetchers : GetQuery(f)
    \/ \E f \in Fetchers : Offer(f)
    \/ \E f \in Fetchers : ProcessQuery(f)
    \/ \E f \in Fetchers : ReceiveFromFetch(f)

LiveSpec == Init /\ [][NextNoFailure]_vars /\ WF_vars(NextNoFailure)

(***************************************************************************)
(* The same run when the upstream may take for ever to answer a page       *)
(* request of the user's fetch: every step but that request is taken if it *)
(* stays possible.                                                         *)
(***************************************************************************)
StepButUserQuery ==
    \/ MainStart
    \/ MainSpawnCache
    \/ MainSpawnApi
    \/ MainSpawnCloser
    \/ MainRangeEnd
    \/ MainWrite
    \/ CloserWait
    \/ CloserClose
    \/ CacheOpen
    \/ CacheScan
    \/ ReceiveFromCache
    \/ ApiUser
    \/ ApiSpawnOrg
    \/ ApiWait
    \/ \E f \in Fetchers \ {0} : GetQuery(f)
    \/ \E f \in Fetchers : Offer(f)
    \/ \E f \in Fetchers \ {0} : ProcessQuery(f)
    \/ \E f \in Fetchers : ReceiveFromFetch(f)

SlowUserSpec == Init /\ [][NextNoFailure]_vars /\ WF_vars(StepButUserQuery)

(***************************************************************************)
(* The same run when main may take for ever to come back to its receive:   *)
(* every step but a receive is taken if it stays possible.                 *)
(***************************************************************************)
StepButReceive ==
    \/ MainStart
    \/ MainSpawnCache
    \/ MainSpawnApi
    \/ MainSpawnCloser
    \/ MainRangeEnd
    \/ MainWrite
    \/ CloserWait
    \/ CloserClose
    \/ CacheOpen
    \/ CacheScan
    \/ ApiUser
    \/ ApiSpawnOrg
    \/ ApiWait
    \/ \E f \in Fetchers : GetQuery(f)
    \/ \E f \in Fetchers : Offer(f)
    \/ \E f \in Fetchers : ProcessQuery(f)

SlowConsumerSpec == Init /\ [][NextNoFailure]_vars /\ WF_vars(StepButReceive)

(***************************************************************************)
(* The sequential main (src/main.go 213-273) with the page-size-20         *)
(* GetUserRepositories / GetOrgRepositories (queries.go 366-456): the      *)
(* user's fetch, then each organization's, are called one after another,   *)
(* what they return is appended to allRepos (kept in collectedRepos), and  *)
(* the names are printed sorted.  `variant` is "sequential".               *)
(***************************************************************************)
\* GetUserRepositories (page size 20): the variables map
GetUserVariables20(owner) ==
    [owner |-> owner, first |-> 20, cursor |-> Nil,
     isArchived |-> Nil, isFork |-> Nil]

\* GetOrgRepositories of the same file: the variables map
GetOrgVariables20(owner) ==
    [owner |-> owner, first |-> 100, cursor |-> Nil,
     isArchived |-> Ptr(FALSE), isFork |-> Nil]

\* one loop iteration on response q: the break on !HasNextPage comes before
\* the append
AggregateUnlessLast(f, q) ==
    IF ~q.HasNextPage
    THEN [f EXCEPT !.query = q]
    ELSE [f EXCEPT !.query = q, !.repos = f.repos \o q.Nodes]

\* the command lines tried: any username, up to MaxOrgs organizations
SeqSources ==
    { <<name, os>> :
        name \in {"", "u", "e"},
        os \in UNION { [1 .. n -> {"o1", "o2", "e"}] : n \in 0 .. MaxOrgs } }

SeqInit ==
    /\ variant = "sequential"
    /\ \E src \in SeqSources : username = src[1] /\ orgs = src[2]
    /\ noArchived = FALSE /\ noFork = FALSE
    /\ cacheFileFlagValue = ""
    /\ disk = Absent
    /\ run = 1
    /\ startCache = disk
    /\ prevWrote = FALSE
    /\ Fresh
    /\ Unformatted

\* flag validation: print usage and exit 1 when no source is given
SeqStart ==
    /\ Running /\ pc.main = "start"
    /\ pc' = [pc EXCEPT !.main =
                  IF username = "" /\ Len(orgs) = 0 THEN "usage" ELSE "user"]
    /\ UNCHANGED <<flags, fmt, disk, run, startCache, prevWrote, fpc, fst, next,
                   wg, fetchWG,
                   closes, seenRepos, lines, cacheOut, printed, origin,
                   collectedRepos, reqlog, fatal>>

\* if username != "" { userRepos, err := github.GetUserRepositories(username)
SeqUser ==
    /\ Running /\ pc.main = "user"
    /\ IF username = ""
       THEN /\ pc' = [pc EXCEPT !.main = "orgs"]
            /\ UNCHANGED <<fpc, fst>>
       ELSE /\ pc' = [pc EXCEPT !.main = "fetch"]
            /\ fpc' = [fpc EXCEPT ![0] = "query"]
            /\ fst' = [fst EXCEPT ![0] = NewFetch(GetUserVariables20(username))]
    /\ UNCHANGED <<flags, fmt, disk, run, startCache, prevWrote, next,
                   wg, fetchWG,
                   closes, seenRepos, lines, cacheOut, printed, origin,
                   collectedRepos, reqlog, fatal>>

\* for _, org := range orgs { repos, err := github.GetOrgRepositories(org)
SeqOrg ==
    /\ Running /\ pc.main = "orgs" /\ next <= Len(orgs)
    /\ pc' = [pc EXCEPT !.main = "fetch"]
    /\ fpc' = [fpc EXCEPT ![next] = "query"]
    /\ fst' = [fst EXCEPT ![next] = NewFetch(GetOrgVariables20(orgs[next]))]
    /\ next' = next + 1
    /\ UNCHANGED <<flags, fmt, disk, run, startCache, prevWrote,
                   wg, fetchWG,
                   closes, seenRepos, lines, cacheOut, printed, origin,
                   collectedRepos, reqlog, fatal>>

\* one page request and the rest of the loop iteration; after the break,
\* the return (filtered for the user) and main's append to allRepos
SeqGetQuery(f) ==
    /\ Running /\ variant = "sequential"
    /\ fpc[f] = "query" /\ Len(reqlog[f]) < MaxRequests
    /\ LET q == Serve(fst[f].variables)
           g == AggregateUnlessLast(fst[f], q)
       IN  /\ reqlog' = [reqlog EXCEPT ![f] =
                            Append(@, LogEntry(fst[f].variables, TRUE, q))]
           /\ IF q.HasNextPage
              THEN /\ fst' = [fst EXCEPT ![f] = Advance(g)]
                   /\ UNCHANGED <<fpc, pc, collectedRepos>>
              ELSE /\ fst' = [fst EXCEPT ![f] =
                                 [g EXCEPT !.ret = Returned(f, g.repos)]]
                   /\ fpc' = [fpc EXCEPT ![f] = "done"]
                   /\ pc' = [pc EXCEPT !.main = "orgs"]
                   /\ collectedRepos' = collectedRepos \o Returned(f, g.repos)
    /\ UNCHANGED <<flags, fmt, disk, run, startCache, prevWrote, next,
                   wg, fetchWG,
                   closes, seenRepos, lines, cacheOut, printed, origin, fatal>>

\* sort.Slice(allRepos, by NameWithOwner); the names are printed in turn
SeqPrint ==
    /\ Running /\ pc.main = "orgs" /\ next > Len(orgs)
    /\ printed' = SortStrings(MapName(collectedRepos))
    /\ pc' = [pc EXCEPT !.main = "done"]
    /\ UNCHANGED <<flags, fmt, disk, run, startCache, prevWrote, fpc, fst, next,
                   wg, fetchWG,
                   closes, seenRepos, lines, cacheOut, origin,
                   collectedRepos, reqlog, fatal>>

SeqNext ==
    \/ SeqStart
    \/ SeqUser
    \/ SeqOrg
    \/ SeqPrint
    \/ \E f \in Fetchers : SeqGetQuery(f)
    \/ \E f \in Fetchers : QueryFails(f)

SeqSpec == SeqInit /\ [][SeqNext]_vars

(***************************************************************************)
(* The formatter on its own: Key and Line applied to one Repository value. *)
(* Names are runs of one letter of every length up to MaxNameLen, so that  *)
(* base + annotation falls below, on and above maxLineWidth; topics are    *)
(* every arrangement of up to MaxTopics of three names, one a prefix of    *)
(* another.                                                                *)
(***************************************************************************)
TopicAlpha == <<"a", "l", "p", "h", "a">>
TopicZeta == <<"z", "e", "t", "a">>
TopicAl == <<"a", "l">>
TopicNames == {TopicAlpha, TopicZeta, TopicAl}

\* the sequences of distinct topic names of length at most MaxTopics
TopicLists ==
    UNION { {t \in [1 .. n -> TopicNames] :
                \A i, j \in 1 .. n : i # j => t[i] # t[j]} : n \in 0 .. MaxTopics }

FormatInputs ==
    { Repository(Repeat("n", k), fork, archived, topics) :
        k \in 1 .. MaxNameLen, fork \in BOOLEAN, archived \in BOOLEAN,
        topics \in TopicLists }

FormatInit ==
    /\ variant = "current"
    /\ username = "" /\ orgs = <<>>
    /\ noArchived = FALSE /\ noFork = FALSE
    /\ cacheFileFlagValue = ""
    /\ disk = Absent
    /\ run = 1
    /\ startCache = disk
    /\ prevWrote = FALSE
    /\ Fresh
    /\ fmtRepo \in FormatInputs
    /\ fmtShowTopics \in BOOLEAN
    /\ fmtKey = Nil
    /\ fmtLine = Nil

\* a call of fmtRepo.Key(fmtShowTopics)
FormatKey ==
    /\ fmtKey = Nil
    /\ fmtKey' = Ptr(Key(fmtRepo, fmtShowTopics))
    /\ UNCHANGED <<flags, pipeline, fmtRepo, fmtShowTopics, fmtLine>>

\* a call of fmtRepo.Line()
FormatLine ==
    /\ fmtLine = Nil
    /\ fmtLine' = Ptr(Line(fmtRepo))
    /\ UNCHANGED <<flags, pipeline, fmtRepo, fmtShowTopics, fmtKey>>

FormatNext ==
    \/ FormatKey
    \/ FormatLine

FormatSpec == FormatInit /\ [][FormatNext]_vars

(***************************************************************************)
(* Vocabulary of the claims.                                               *)
(***************************************************************************)
\* the lines of a cache file, as a scanner reads them
FileLines(d) == IF d.exists THEN ScanLines(d.data) ELSE <<>>

\* the trimmed non-empty lines of a cache file
CacheKeys(d) == {TrimSpace(l) : l \in Range(FileLines(d))} \ {<<>>}

\* the repositories the upstream holds for an owner
Held(owner) == Range(Flatten(Upstream[owner]))

\* the keys GetUserRepositories returns: neither archived nor fork
UserKeys ==
    IF username = "" THEN {}
    ELSE {r.NameWithOwner : r \in {h \in Held(username) : ~h.IsArchived /\ ~h.IsFork}}

\* the keys GetOrgRepositories returns for the j-th organization: not archived
OrgKeys(j) == {r.NameWithOwner : r \in {h \in Held(orgs[j]) : ~h.IsArchived}}

\* every key the sources of this run of the cache-enabled pipeline hold
SourceKeys ==
    CacheKeys(startCache) \cup UserKeys
        \cup UNION {OrgKeys(j) : j \in 1 .. Len(orgs)}

Count(x, seq) == Cardinality({i \in DOMAIN seq : seq[i] = x})
NoDuplicates(seq) == \A i, j \in DOMAIN seq : i # j => seq[i] # seq[j]

\* main's range loop over the channel has ended
Drained == pc.main \in {"write", "done"}

\* the lines printed on behalf of one sender, in the order printed
RECURSIVE PrintedFrom(_, _, _)
PrintedFrom(who, out, from) ==
    IF out = <<>> THEN <<>>
    ELSE (IF Head(from) = who THEN <<Head(out)>> ELSE <<>>)
         \o PrintedFrom(who, Tail(out), Tail(from))

\* a producer has finished, or is one this command line never starts
CacheFinished == pc.cache = (IF variant = "cache" THEN "done" ELSE "idle")
ApiFinished ==
    pc.api = (IF username # "" \/ Len(orgs) > 0 THEN "done" ELSE "idle")
FetchFinished(f) ==
    fpc[f] = (IF f = 0 /\ username = "" THEN "idle" ELSE "done")
ProducersFinished ==
    CacheFinished /\ ApiFinished /\ \A f \in Fetchers : FetchFinished(f)

\* fetch f has left its pagination loop
PaginationEnded(f) ==
    IF variant = "cache" THEN fpc[f] \in {"offer", "send", "done"}
    ELSE fpc[f] = "done"

\* the request variables fetch f starts from
StartVariables(f) ==
    IF variant = "current" THEN ProcessVariables(Owner(f), noArchived, noFork)
    ELSE IF f = 0 THEN GetUserVariables(Owner(f))
    ELSE GetOrgVariables(Owner(f))

RECURSIVE MapLine(_)
MapLine(nodes) ==
    IF nodes = <<>> THEN <<>> ELSE <<Line(Head(nodes))>> \o MapLine(Tail(nodes))

\* a query of fetch f returned an error
Failed(f) == \E j \in DOMAIN reqlog[f] : ~reqlog[f][j].ok

\* every arrangement of the elements of a sequence
Perms(seq) ==
    {[i \in DOMAIN seq |-> seq[p[i]]] : p \in Permutations(DOMAIN seq)}

\* no element of t is followed by a smaller one
IsAscending(t) == \A i, j \in DOMAIN t : i < j => ~StrLess(t[j], t[i])

\* the arrangement of the topics that is ascending
Ascending(topics) == CHOOSE t \in Perms(topics) : IsAscending(t)

\* the annotations a repository is to get, in the order stated
Annotations(r, withTopics) ==
    (IF r.IsArchived THEN <<StrArchived>> ELSE <<>>)
    \o (IF r.IsFork THEN <<StrFork>> ELSE <<>>)
    \o (IF withTopics /\ r.RepositoryTopics # <<>>
        THEN << <<"[">> \o Join(Ascending(r.RepositoryTopics), <<",">>)
                       \o <<"]">> >>
        ELSE <<>>)

Annotation(r, withTopics) == Join(Annotations(r, withTopics), <<" ", "|", " ">>)

\* what follows the name in a formatted line, without the padding
AfterName(out, r) ==
    TrimLeft(SubSeq(out, Len(r.NameWithOwner) + 1, Len(out)))

StartsWith(s, prefix) ==
    Len(s) >= Len(prefix) /\ SubSeq(s, 1, Len(prefix)) = prefix

EndsWith(s, suffix) ==
    Len(s) >= Len(suffix)
    /\ SubSeq(s, Len(s) - Len(suffix) + 1, Len(s)) = suffix

\* out is base and ann laid out in the given width: padded with spaces
\* between them when they fit, concatenated otherwise
LaidOut(out, base, ann, width) ==
    LET total == Len(base) + Len(ann) IN
    IF ann # <<>> /\ total <= width
    THEN /\ Len(out) >= width
         /\ out = base \o Repeat(SP, Len(out) - total) \o ann
    ELSE out = base \o ann

\* what fetch f yields, in the upstream's order: page by page, each page in
\* node order
Yield(f) ==
    IF variant = "current" THEN MapLine(AllNodes(StartVariables(f)))
    ELSE MapName(Returned(f, AllNodes(StartVariables(f))))

\* the run has done nothing but end at the usage exit: no goroutine was
\* started, no request issued, nothing read, printed or written
OnlyUsage ==
    /\ pc.main \in {"start", "usage"}
    /\ pc.cache = "idle" /\ pc.api = "idle" /\ pc.closer = "idle"
    /\ \A f \in Fetchers : fpc[f] = "idle" /\ reqlog[f] = <<>>
    /\ lines = <<>> /\ seenRepos = {}
    /\ printed = <<>> /\ collectedRepos = <<>>
    /\ disk = startCache
    /\ ~fatal

\* the producers stopped in a send of key k (the cache reader, the fetches)
Sending(k) ==
    (IF pc.cache = "send" /\ cacheOut = k THEN {CacheReader} ELSE {})
    \cup {f \in Fetchers : fpc[f] = "send" /\ SendValue(f) = k}

(***************************************************************************)
(* Claims.                                                                 *)
(***************************************************************************)

\* C1: in the cache-enabled pipeline no key is ever printed twice, and once
\* main's range loop has ended every non-empty key held by any source (cache
\* file, user fetch, organization fetches) has been printed exactly once,
\* whatever the overlap of the sources and the interleaving of the producers.
C1_EachKeyExactlyOnce ==
    variant = "cache" =>
        /\ NoDuplicates(printed)
        /\ Drained => \A k \in SourceKeys : Count(k, printed) = 1

\* C1 witness: a run has drained in which two organization goroutines both
\* returned a key that was printed.
C1_Witness ==
    /\ variant = "cache" /\ Drained
    /\ \E f, g \in Fetchers \ {0} :
         /\ f # g
         /\ \E k \in OrgKeys(f) \cap OrgKeys(g) : Count(k, printed) = 1

\* C2: when a run of the cache-enabled pipeline ends (no fetch failed), the
\* set of printed lines is the union of the trimmed non-empty cache lines and
\* the keys the user and organization fetches returned, and the lines of the
\* rewritten cache file are exactly that set.
C2_PrintedAndCacheAreUnion ==
    (variant = "cache" /\ pc.main = "done") =>
        /\ Range(printed) = SourceKeys
        /\ Range(FileLines(disk)) = SourceKeys

\* C3: a failed query of one organization's fetch does not end the run: the
\* process is not terminated, and when main's loop has ended every line of
\* every other fetch has been printed.
C3_OrgFailureDoesNotAbort ==
    variant = "current" =>
        \A f \in Fetchers \ {0} :
            Failed(f) =>
                /\ ~fatal
                /\ pc.main = "done" =>
                     \A g \in Fetchers \ {f} :
                        (g # 0 \/ username # "") =>
                            PrintedFrom(g, printed, origin)
                                = MapLine(AllNodes(StartVariables(g)))

\* C4: the channel is closed at most once, by the closer and by the time
\* main's loop ends, and from the moment the closer's wg.Wait has returned
\* every producer (cache reader, API goroutine, user fetch, every
\* organization fetch) has finished: none is blocked in a send, running, or
\* still to be started.
C4_CloseOnceAfterAllProducers ==
    /\ closes <= 1
    /\ closed <=> pc.closer = "done"
    /\ Drained => closes = 1
    /\ pc.closer \in {"close", "done"} => ProducersFinished

\* C4 witness: the channel is closed in a run with a cache reader, a user
\* fetch and two organization fetches.
C4_Witness ==
    /\ closed /\ variant = "cache" /\ username # "" /\ Len(orgs) >= 2
    /\ Len(printed) >= 2

\* C5: a fetch never issues more page requests than the upstream has pages
\* for it, and once it has left its pagination loop it has issued exactly
\* that many and yielded the nodes of all of them: Get*Repositories has
\* aggregated them in order, Process*Repositories has sent the line of each
\* in order.
C5_AllPagesFetched ==
    \A f \in Fetchers :
        /\ fpc[f] # "idle" => Len(reqlog[f]) <= Len(Upstream[Owner(f)])
        /\ PaginationEnded(f) =>
              /\ Len(reqlog[f]) = Len(Upstream[Owner(f)])
              /\ variant = "cache" =>
                    fst[f].repos = AllNodes(StartVariables(f))
              /\ variant = "current" =>
                    PrintedFrom(f, printed, origin)
                        = MapLine(AllNodes(StartVariables(f)))

\* C5 witness: a Process*Repositories fetch over three pages has returned
\* and its last page's node has been printed.
C5_Witness ==
    /\ variant = "current" /\ ~noFork
    /\ \E f \in Fetchers :
         /\ fpc[f] = "done" /\ Len(reqlog[f]) = 3
         /\ Len(PrintedFrom(f, printed, origin)) = 2

\* C6: within one fetch the first request carries a nil cursor, every later
\* request carries the endCursor of the response just before it, and that
\* response was a success with hasNextPage true; a fetch that has left its
\* loop got hasNextPage false last, and one about to issue a request got
\* hasNextPage true last (or has issued none).
C6_CursorProtocol ==
    \A f \in Fetchers :
        LET log == reqlog[f] IN
        /\ \A j \in DOMAIN log :
              IF j = 1 THEN log[j].variables.cursor = Nil
              ELSE /\ log[j - 1].ok /\ log[j - 1].HasNextPage
                   /\ log[j].variables.cursor = Ptr(log[j - 1].EndCursor)
        /\ PaginationEnded(f) =>
              (log # <<>> /\ log[Len(log)].ok /\ ~log[Len(log)].HasNextPage)
        /\ (fpc[f] = "query" /\ log # <<>> /\ ~Failed(f)) =>
              log[Len(log)].HasNextPage

\* C6 witness: a fetch has issued its third request, carrying the second
\* response's endCursor.
C6_Witness ==
    \E f \in Fetchers :
        /\ Len(reqlog[f]) = 3 /\ reqlog[f][3].ok
        /\ reqlog[f][3].variables.cursor = Ptr(reqlog[f][2].EndCursor)

\* C7: from the cache write on, every producer has finished, the channel is
\* closed, every key let through by the seen set has been printed, and what
\* has been printed is exactly what was collected and written (nothing is
\* printed after the write).
C7_WriteAfterDrain ==
    (variant = "cache" /\ Drained) =>
        /\ ProducersFinished
        /\ closed
        /\ seenRepos = Range(printed)
        /\ collectedRepos = printed
        /\ pc.main = "done" => disk = File(CacheContent(printed))

\* C7 witness: the cache was written in a run with a cache reader, a user
\* fetch and two organization fetches that printed lines.
C7_Witness ==
    /\ variant = "cache" /\ pc.main = "done"
    /\ username # "" /\ Len(orgs) >= 2 /\ Len(printed) >= 3

\* C8: after the cache write the lines of the cache file are exactly the
\* sequence of lines printed in the run, in arrival order.
C8_CacheIsPrintedSequence ==
    (variant = "cache" /\ pc.main = "done") =>
        /\ disk.exists
        /\ FileLines(disk) = printed

\* C9: after the cache write the cache file has no blank line and no
\* duplicate line, also when nothing was collected.
C9_NoBlankNoDuplicateLines ==
    (variant = "cache" /\ pc.main = "done") =>
        /\ \A i \in DOMAIN FileLines(disk) : TrimSpace(FileLines(disk)[i]) # <<>>
        /\ NoDuplicates(FileLines(disk))

\* C10: when the tool has been run to the cache write and is run again to
\* the cache write, the cache file holds the same set of lines after the
\* second run as after the first.
C10_Idempotent ==
    (variant = "cache" /\ run >= 2 /\ pc.main = "done" /\ prevWrote) =>
        Range(FileLines(disk)) = Range(FileLines(startCache))

\* C10 witness: a second run over the first run's cache file has written the
\* cache, with keys from the cache reader and from organization fetches.
C10_Witness ==
    /\ variant = "cache" /\ run >= 2 /\ pc.main = "done" /\ prevWrote
    /\ Len(printed) >= 2 /\ Len(orgs) >= 2
    /\ CacheReader \in Range(origin)

\* C11: in a run of the cache-enabled pipeline that starts with no cache file
\* the cache reader sends nothing and returns with its wg.Done made, the
\* process is ended by nothing but a failed query, every key of the user and
\* organization fetches is printed by the time main's loop ends, and the run
\* ends with the cache file written from what was printed.
C11_AbsentCacheIsEmptySource ==
    (variant = "cache" /\ ~startCache.exists) =>
        /\ pc.cache \in {"idle", "open", "done"}
        /\ lines = <<>>
        /\ CacheReader \notin Range(origin)
        /\ pc.cache = "done" =>
              wg = (IF pc.api \in {"begin", "user", "spawn"} THEN 1 ELSE 0)
        /\ fatal => \E f \in Fetchers : Failed(f)
        /\ Drained =>
              (UserKeys \cup UNION {OrgKeys(j) : j \in 1 .. Len(orgs)})
                  \subseteq Range(printed)
        /\ pc.main = "done" => disk = File(CacheContent(printed))

\* C11 witness: a run that found no cache file has written the cache after
\* printing keys of the user fetch and of two organization fetches.
C11_Witness ==
    /\ variant = "cache" /\ ~startCache.exists /\ pc.main = "done"
    /\ pc.cache = "done" /\ username # "" /\ Len(orgs) >= 2
    /\ Len(printed) >= 3

\* C12: when no query fails, every run reaches its end: either the usage
\* exit, or main's loop has left the closed channel with the cache reader,
\* the API goroutine and every fetch finished; no interleaving leaves a
\* producer blocked in a send or the closer blocked in wg.Wait.
C12_Terminates ==
    <>(\/ pc.main = "usage"
       \/ pc.main = "done" /\ closed /\ ProducersFinished)

\* C12 witness: a run of the streaming pipeline with a user fetch and two
\* organization fetches has ended with lines of each printed.
C12_Witness ==
    /\ variant = "current" /\ pc.main = "done" /\ closed
    /\ username # "" /\ Len(orgs) >= 2
    /\ \A f \in Fetchers : f \in Range(origin)

\* C13: in the streaming pipeline every page request of every fetch, the
\* first and the later ones alike, carries isArchived = false exactly when
\* --no-archived is set and nil otherwise, isFork = false exactly when
\* --no-fork is set and nil otherwise, the page size and the fetch's owner.
C13_FilterPushDown ==
    variant = "current" =>
        \A f \in Fetchers :
            \A j \in DOMAIN reqlog[f] :
                LET v == reqlog[f][j].variables IN
                /\ v.isArchived = (IF noArchived THEN Ptr(FALSE) ELSE Nil)
                /\ v.isFork = (IF noFork THEN Ptr(FALSE) ELSE Nil)
                /\ v.first = pageSize
                /\ v.owner = Owner(f)

\* C13 witness: with --no-archived set and --no-fork not set, the user fetch
\* and an organization fetch have each issued a request with a cursor.
C13_Witness ==
    /\ variant = "current" /\ noArchived /\ ~noFork /\ username # ""
    /\ Len(reqlog[0]) >= 2 /\ reqlog[0][2].variables.cursor # Nil
    /\ \E f \in Fetchers \ {0} :
         Len(reqlog[f]) = 3 /\ reqlog[f][3].variables.cursor # Nil

\* C14: the key Key(showTopics) returns is the name followed by the
\* annotations "archived" (iff archived), "fork" (iff fork) and (iff
\* showTopics and there are topics) the bracketed comma-joined topics in
\* ascending order, in that order and joined with " | "; it is the name alone
\* when there is no annotation; it is the same for every order the topics
\* come in; topics zeta, alpha give [alpha,zeta].
C14_KeyAnnotations ==
    fmtKey # Nil =>
        LET out == fmtKey[1]
            r == fmtRepo
        IN  /\ StartsWith(out, r.NameWithOwner)
            /\ AfterName(out, r) = Annotation(r, fmtShowTopics)
            /\ Annotations(r, fmtShowTopics) = <<>> => out = r.NameWithOwner
            /\ \A q \in Perms(r.RepositoryTopics) :
                  Key([r EXCEPT !.RepositoryTopics = q], fmtShowTopics) = out
            /\ (/\ fmtShowTopics /\ ~r.IsArchived /\ ~r.IsFork
                /\ r.RepositoryTopics = <<TopicZeta, TopicAlpha>>) =>
                  AfterName(out, r) =
                      <<"[", "a", "l", "p", "h", "a", ",", "z", "e", "t", "a", "]">>

\* C14 witness: Key(true) has been called on an archived fork whose topics
\* come as zeta, alpha.
C14_Witness ==
    /\ fmtKey # Nil /\ fmtShowTopics
    /\ fmtRepo.IsArchived /\ fmtRepo.IsFork
    /\ fmtRepo.RepositoryTopics = <<TopicZeta, TopicAlpha>>
    /\ EndsWith(fmtKey[1], <<"k", " ", "|", " ", "[", "a", "l", "p", "h", "a",
                             ",", "z", "e", "t", "a", "]">>)

\* C15: with a non-empty annotation and len(base) + len(annotation) <= 150
\* the formatted text is at least 150 long and is the base, then only
\* spaces, then the annotation; otherwise it is exactly base + annotation;
\* at len(base) + len(annotation) = 150 both descriptions give
\* base + annotation.  This holds for Key and for Line.
C15_Padding ==
    LET base == fmtRepo.NameWithOwner IN
    /\ fmtKey # Nil =>
          LET ann == Annotation(fmtRepo, fmtShowTopics) IN
          /\ LaidOut(fmtKey[1], base, ann, maxLineWidth)
          /\ Len(base) + Len(ann) = maxLineWidth => fmtKey[1] = base \o ann
    /\ fmtLine # Nil =>
          LET ann == Annotation(fmtRepo, TRUE) IN
          /\ LaidOut(fmtLine[1], base, ann, maxLineWidth)
          /\ Len(base) + Len(ann) = maxLineWidth => fmtLine[1] = base \o ann

\* C15 witness: Key has been called on a repository whose name and non-empty
\* annotation are together exactly 150 long, and returned them unpadded.
C15_Witness ==
    /\ fmtKey # Nil
    /\ Annotation(fmtRepo, fmtShowTopics) # <<>>
    /\ Len(fmtRepo.NameWithOwner) + Len(Annotation(fmtRepo, fmtShowTopics))
          = maxLineWidth
    /\ Len(fmtKey[1]) = maxLineWidth

\* C16: Key(false) never lists topics: its result holds no bracket, and is
\* the name alone when the repository is neither archived nor a fork,
\* whatever its topics; and whatever showTopics is, the annotation starts
\* with "archived" when the repository is archived and names "fork" (first,
\* or right after "archived | ") when it is a fork.
C16_TopicsFlagOnlyHidesTopics ==
    fmtKey # Nil =>
        LET out == fmtKey[1]
            r == fmtRepo
            ann == AfterName(out, r)
        IN  /\ ~fmtShowTopics =>
                  /\ "[" \notin Range(out) /\ "]" \notin Range(out)
                  /\ (~r.IsArchived /\ ~r.IsFork) => out = r.NameWithOwner
            /\ r.IsArchived => StartsWith(ann, StrArchived)
            /\ r.IsFork =>
                  StartsWith(ann, IF r.IsArchived
                                  THEN StrArchived \o <<" ", "|", " ">> \o StrFork
                                  ELSE StrFork)

\* C16 witness: Key(false) has been called on an archived fork that has
\* topics, and returned a text ending in "archived | fork".
C16_Witness ==
    /\ fmtKey # Nil /\ ~fmtShowTopics
    /\ fmtRepo.IsArchived /\ fmtRepo.IsFork
    /\ Len(fmtRepo.RepositoryTopics) = 2
    /\ EndsWith(fmtKey[1], StrArchived \o <<" ", "|", " ">> \o StrFork)

\* C17: for any two repositories a fetch yields, the first before the
\* second (same page in node order, or an earlier page), if both are printed
\* on behalf of that fetch then the first is printed before the second,
\* wherever the lines of the other sources fall.
C17_SourceOrderPreserved ==
    \A f \in Fetchers :
        f \in Range(origin) =>
            \A i, j \in DOMAIN Yield(f) :
                i < j =>
                    \A m, n \in DOMAIN printed :
                        (/\ origin[m] = f /\ printed[m] = Yield(f)[i]
                         /\ origin[n] = f /\ printed[n] = Yield(f)[j]) => m < n

\* C17 witness: a fetch of the streaming pipeline has had three lines of two
\* pages printed, with a line of another fetch printed between two of them.
C17_Witness ==
    /\ variant = "current"
    /\ \E f \in Fetchers :
         /\ Len(PrintedFrom(f, printed, origin)) = 3
         /\ Len(reqlog[f]) = 2
         /\ \E m, k, n \in DOMAIN printed :
               /\ m < k /\ k < n
               /\ origin[m] = f /\ origin[k] # f /\ origin[n] = f

\* C18 as stated: with neither a username nor an organization the run does
\* nothing but end at the usage exit, whatever other flags are given.
C18_UsageWithoutUserAndOrgs ==
    (username = "" /\ Len(orgs) = 0) => OnlyUsage

\* C18: with neither a username nor an organization, and in the
\* cache-enabled main no --cache-file either, the run does nothing but end at
\* the usage exit (status 1): no fetch, no cache read, no line printed, no
\* cache write; --no-archived and --no-fork make no difference.
C18_UsageWithoutAnySource ==
    (/\ username = "" /\ Len(orgs) = 0
     /\ variant = "cache" => cacheFileFlagValue = "") => OnlyUsage

\* C18 witness: the cache-enabled main has taken the usage exit over a cache
\* file that holds keys.
C18_Witness ==
    /\ variant = "cache" /\ username = "" /\ Len(orgs) = 0
    /\ cacheFileFlagValue = ""
    /\ pc.main = "usage" /\ CacheKeys(disk) # {}

\* C19: in the streaming pipeline no line is printed twice, also when an
\* organization is listed twice or two sources return the same repository.
C19_CurrentNoDuplicates ==
    variant = "current" => NoDuplicates(printed)

\* C20: what the page-size-20 GetUserRepositories / GetOrgRepositories
\* returns is built from the nodes of every page requested, the final one
\* included: every node the upstream holds for the request (for the user,
\* those neither archived nor fork).
C20_FinalPageIncluded ==
    variant = "sequential" =>
        \A f \in Fetchers :
            fpc[f] = "done" =>
                fst[f].ret =
                    Returned(f, AllNodes([fst[f].variables EXCEPT !.cursor = Nil]))

\* C21: in the cache-enabled pipeline the organization fetches do not wait
\* for the user's fetch: with a user and organizations given, some
\* organization fetch issues a page request however long the user's fetch
\* takes.
C21_OrgsStartDespiteSlowUser ==
    (variant = "cache" /\ username # "" /\ Len(orgs) > 0) =>
        <>(\E f \in Fetchers \ {0} : reqlog[f] # <<>>)

\* C22: in the cache-enabled pipeline the empty string is never stored in
\* the seen set, sent, printed or written to the cache file; every printed
\* key is free of surrounding whitespace, and a cache line is printed at
\* most once under its trimmed form, so a whitespace-only line gives no
\* output and " a " is the same key as "a".
C22_EmptyKeysDropped ==
    variant = "cache" =>
        /\ <<>> \notin seenRepos
        /\ pc.cache = "send" => cacheOut # <<>>
        /\ \A f \in Fetchers : fpc[f] = "send" => SendValue(f) # <<>>
        /\ \A i \in DOMAIN printed :
              printed[i] # <<>> /\ TrimSpace(printed[i]) = printed[i]
        /\ \A l \in Range(FileLines(startCache)) :
              Count(TrimSpace(l), printed) <= 1
        /\ pc.main = "done" =>
              \A i \in DOMAIN FileLines(disk) : FileLines(disk)[i] # <<>>

C24_CacheNeverEvicts ==
    (variant = "cache" /\ pc.main = "done" /\ startCache.exists) =>
        /\ CacheKeys(startCache) \subseteq Range(FileLines(disk))
        /\ CacheKeys(startCache) \subseteq CacheKeys(disk)

\* C24 witness: a run with fetches has written the cache, and the file still
\* holds a key of the old file that no fetch of the run returned.
C24_Witness ==
    /\ variant = "cache" /\ pc.main = "done" /\ startCache.exists
    /\ username # "" \/ Len(orgs) > 0
    /\ \E k \in CacheKeys(startCache) :
         /\ k \notin UserKeys \cup UNION {OrgKeys(j) : j \in 1 .. Len(orgs)}
         /\ k \in Range(FileLines(disk))

\* C25: in the cache-enabled pipeline the cache file is as it was before the
\* run until the write at the end of main: a run ended by a fatal error, at
\* any point and in any interleaving, leaves it untouched, and a file that
\* differs was written after every producer had finished, the channel was
\* closed and main's loop had ended.
C25_AbortLeavesCacheIntact ==
    variant = "cache" =>
        /\ fatal => disk = startCache
        /\ pc.main # "done" => disk = startCache
        /\ disk # startCache => (ProducersFinished /\ closed /\ ~fatal)

\* C25 witness: a query failed after keys of a cache file and of a fetch
\* had been printed, and the cache file is as it was.
C25_Witness ==
    /\ variant = "cache" /\ fatal /\ startCache.exists
    /\ CacheReader \in Range(origin)
    /\ \E f \in Fetchers : f \in Range(origin)
    /\ disk = startCache

\* C26: in the cache-enabled pipeline every printed key is in the seen set;
\* each key of the seen set that is not printed yet is being sent by exactly
\* one producer, and no printed key is being sent;
\* once main's loop has ended the seen set is the set of printed keys; and
\* within a run the seen set only grows.
C26_SeenSetAndOutput ==
    /\ [](variant = "cache" =>
            /\ Range(printed) \subseteq seenRepos
            /\ \A k \in seenRepos \ Range(printed) :
                  Cardinality(Sending(k)) = 1
            /\ \A k \in Range(printed) : Sending(k) = {}
            /\ Drained => seenRepos = Range(printed))
    /\ [][run' = run => seenRepos \subseteq seenRepos']_vars

\* C26 witness: two keys are in the seen set and not printed, one in the
\* cache reader's send and one in a fetch's, while a third is printed.
C26_Witness ==
    /\ variant = "cache" /\ pc.main = "range" /\ Len(printed) >= 1
    /\ pc.cache = "send"
    /\ \E f \in Fetchers : fpc[f] = "send" /\ SendValue(f) # cacheOut
    /\ Cardinality(seenRepos \ Range(printed)) = 2

====
